---- MODULE Spec2Model ----
(***************************************************************************)
(* A model of models/TDRG.py: the Top-K pooling operator, the cross-scale  *)
(* attention fusion, the masked-sum fusion and the forward pass of TDRG    *)
(* (tensor shapes, gradient paths, per-sample values, batch-norm state).   *)
(*                                                                         *)
(* Tensors are not stored element by element.  A tensor of the forward     *)
(* pass is a record                                                        *)
(*    shape : its sizes, as a sequence                                     *)
(*    grad  : the parameters it depends on along detach-free paths         *)
(*    val   : per batch row, what the row is a function of                 *)
(* Numbers that are not integers (kmax, averages, batch statistics) are    *)
(* exact rationals <<num, den>> in lowest terms with den > 0.              *)
(***************************************************************************)
EXTENDS Integers, Sequences, FiniteSets

VARIABLES
    \* TopKMaxPooling (standalone object)
    pool_pc, kmax, pool_input, pool_output,
    \* TDRG.cross_scale_attention (static method)
    csa_pc, csa_in, csa_out,
    \* fusion step of TDRG.forward, lines 258-259
    fus_pc, raw_logits, fused,
    \* the TDRG module: nn.Module state and guidance_bn buffers
    num_classes, training, running_mean, running_var, num_batches_tracked,
    \* one call of TDRG.forward: position, argument, locals, results
    pc, x, entry, x3, x4, f3, f4, f5, out_trans, out_sac, V, A_s, out_gcn,
    \* an earlier completed call, kept to compare two calls
    ref

poolVars == <<pool_pc, kmax, pool_input, pool_output>>
csaVars == <<csa_pc, csa_in, csa_out>>
fusVars == <<fus_pc, raw_logits, fused>>
moduleVars == <<num_classes, training, running_mean, running_var, num_batches_tracked>>
callVars == <<pc, x, entry, x3, x4, f3, f4, f5, out_trans, out_sac, V, A_s, out_gcn>>
vars == <<poolVars, csaVars, fusVars, moduleVars, callVars, ref>>

\* Values of variables that hold nothing yet.
NoRat == <<0, 0>>
NoSlice == [h |-> 0, w |-> 0, vals |-> <<>>]
NoTensor == [shape |-> <<>>, grad |-> {}, val |-> <<>>]

(***************************************************************************)
(* Bounds of the model.                                                    *)
(***************************************************************************)
MaxRegions == 4     \* a pooled channel has at most this many regions h*w
MaxVal == 0         \* activations lie in -1..MaxVal
MaxKNum == 5        \* numerators of the kmax values tried
MaxCsaDim == 2      \* batch and channel sizes of the maps given to cross_scale_attention
MaxCsaSide == 2     \* heights and widths of those maps
MaxElems == 8       \* entries B * Cls * Cls of the logits given to the fusion step
MaxLogit == 1       \* those logits lie in 0..MaxLogit
MaxB == 2           \* batch sizes of the images given to TDRG.forward
MaxSide == 7        \* image sides are 32, 64, ..., 32 * MaxSide pixels
MaxClasses == 2     \* num_classes given to the constructor
MaxPix == 1         \* an image is one of the values 0..MaxPix
MaxTrain == 2       \* training-mode forward passes in one behaviour

(***************************************************************************)
(* Exact rational arithmetic.                                              *)
(***************************************************************************)
Abs(a) == IF a < 0 THEN -a ELSE a

RECURSIVE GCD(_, _)
GCD(a, b) == IF b = 0 THEN a ELSE GCD(b, a % b)

Rat(n, d) ==
    LET g == GCD(Abs(n), Abs(d))
        s == IF d < 0 THEN -1 ELSE 1
    IN  IF g = 0 THEN <<0, 0>> ELSE <<(s * n) \div g, (s * d) \div g>>

RInt(n) == <<n, 1>>
RAdd(a, b) == Rat(a[1] * b[2] + b[1] * a[2], a[2] * b[2])
RSub(a, b) == Rat(a[1] * b[2] - b[1] * a[2], a[2] * b[2])
RMul(a, b) == Rat(a[1] * b[1], a[2] * b[2])
RLess(a, b) == a[1] * b[2] < b[1] * a[2]
RLeq(a, b) == a[1] * b[2] <= b[1] * a[2]

RECURSIVE SumSeq(_)
SumSeq(s) == IF s = <<>> THEN 0 ELSE Head(s) + SumSeq(Tail(s))

(***************************************************************************)
(* TopKMaxPooling                                                          *)
(***************************************************************************)

\* Rounding towards zero, what int() would do in place of round().
PyRoundDown(num, den) == num \div den

\* Python's round() on the non-negative rational num/den: to the nearest
\* integer, a tie going to the even neighbour.

PyRound(num, den) ==
    LET q == num \div den
        r == num % den
    IN  IF 2 * r < den THEN q
        ELSE IF 2 * r > den THEN q + 1
        ELSE IF q % 2 = 0 THEN q ELSE q + 1

\* Python's int() on a rational: truncation toward zero.
PyInt(k) == IF k[1] >= 0 THEN k[1] \div k[2] ELSE -((-k[1]) \div k[2])

\* TopKMaxPooling.get_positive_k(k, n)
get_positive_k(k, n) ==
    IF RLeq(k, RInt(0)) THEN 0
    ELSE IF RLess(k, RInt(1)) THEN PyRound(k[1] * n, k[2])
    ELSE IF RLess(RInt(n), k) THEN n
    ELSE PyInt(k)

\* torch.sort(..., descending=True) on one channel: insertion into a sorted prefix.
RECURSIVE InsertAsc(_, _)
InsertAsc(v, s) ==
    IF s = <<>> THEN <<v>>
    ELSE IF v <= Head(s) THEN <<v>> \o s
    ELSE <<Head(s)>> \o InsertAsc(v, Tail(s))

RECURSIVE InsertDesc(_, _)
InsertDesc(v, s) ==
    IF s = <<>> THEN <<v>>
    ELSE IF v >= Head(s) THEN <<v>> \o s
    ELSE <<Head(s)>> \o InsertDesc(v, Tail(s))

RECURSIVE SortWith(_, _)
SortWith(s, asc) ==
    IF s = <<>> THEN <<>>
    ELSE IF asc THEN InsertAsc(Head(s), SortWith(Tail(s), asc))
    ELSE InsertDesc(Head(s), SortWith(Tail(s), asc))

\* torch.sort with descending=False
SortAscending(s) == SortWith(s, TRUE)

SortDescending(s) == SortWith(s, FALSE)

\* Tensor.narrow(2, 0, length) on one channel
Narrow(s, length) == SubSeq(s, 1, length)

\* Not-a-number, the float 0/0.
NaN == <<0, 0>>

\* sum(2).div_(kmax): a float division; 0/0 is NaN (the sum of no element is 0).
DivCount(total, count) == IF count = 0 THEN NaN ELSE Rat(total, count)

\* TopKMaxPooling.forward on one (batch, channel) slice given as [h, w, vals]
TopKForward(k, input) ==
    LET n == input.h * input.w
        count == get_positive_k(k, n)
        sorted == SortDescending(input.vals)
        region_max == Narrow(sorted, count)
    IN  DivCount(SumSeq(region_max), count)

KDens == {1, 2, 20}
KValues == {Rat(p, q) : p \in (-1)..MaxKNum, q \in KDens}
Vals == (-1)..MaxVal
PoolShapes == {hw \in (1..MaxRegions) \X (1..MaxRegions) : hw[1] * hw[2] <= MaxRegions}
PoolInputs ==
    UNION {{[h |-> hw[1], w |-> hw[2], vals |-> v] : v \in [1..(hw[1] * hw[2]) -> Vals]}
           : hw \in PoolShapes}

\* TopKMaxPooling.__init__(kmax): stores kmax, whatever it is
PoolConstruct(k) ==
    /\ pool_pc = "new"
    /\ kmax' = k
    /\ pool_pc' = "constructed"
    /\ UNCHANGED <<pool_input, pool_output>>

\* TopKMaxPooling.forward(input)
PoolForward(input) ==
    /\ pool_pc = "constructed"
    /\ pool_input' = input
    /\ pool_output' = TopKForward(kmax, input)
    /\ pool_pc' = "done"
    /\ UNCHANGED kmax

PoolIdle ==
    /\ pool_pc = "idle" /\ kmax = NoRat /\ pool_input = NoSlice /\ pool_output = NoRat

PoolInit ==
    /\ pool_pc = "new" /\ kmax = NoRat /\ pool_input = NoSlice /\ pool_output = NoRat

PoolNext ==
    \/ \E k \in KValues : PoolConstruct(k)
    \/ \E input \in PoolInputs : PoolForward(input)

(***************************************************************************)
(* Tensors of the forward pass and the torch operations on them.           *)
(***************************************************************************)

\* The one element of a singleton set.  An operation written
\*    Op(t_) == The({body : t \in {t_}})
\* evaluates its argument once and then its body on the value.
The(S) == CHOOSE r \in S : TRUE

\* What a failed operation (a RuntimeError or ValueError of torch) leaves.
ErrT == [shape |-> <<0>>, grad |-> {}, val |-> <<>>]
IsErr(t) == t.shape = <<0>>

\* A batch row that is a function of input sample pix alone.
NoBN == <<NoRat, NoRat>>
Row(pix) == [pix |-> pix, bn |-> NoBN, nan |-> FALSE]

\* The row of an operation reading rows a and b of the same sample.
JoinRow(a, b) ==
    [pix |-> a.pix,
     bn |-> IF a.bn # NoBN THEN a.bn ELSE b.bn,
     nan |-> a.nan \/ b.nan]

RECURSIVE JoinRows(_, _)
JoinRows(a, b) ==
    IF a = <<>> THEN <<>>
    ELSE <<JoinRow(Head(a), Head(b))>> \o JoinRows(Tail(a), Tail(b))

JoinVal(a, b) ==
    IF Len(a) = Len(b) THEN JoinRows(a, b)
    ELSE IF Len(a) = 0 THEN b ELSE a

Max3(a, b, c) ==
    LET m == IF a >= b THEN a ELSE b
    IN  IF m >= c THEN m ELSE c

\* F.interpolate(t, size=(side, side), mode='bilinear', align_corners=True)
Interpolate(t_, side) ==
    The({(
    IF IsErr(t) \/ Len(t.shape) # 4 \/ t.shape[3] = 0 \/ t.shape[4] = 0 \/ side = 0
    THEN ErrT
    ELSE [t EXCEPT !.shape = <<t.shape[1], t.shape[2], side, side>>]
    ) : t \in {t_}})

\* Broadcasting of two sizes of one dimension (0: they do not broadcast).
BroadcastDim(a, b) ==
    IF a = b THEN a ELSE IF a = 1 THEN b ELSE IF b = 1 THEN a ELSE 0

RECURSIVE BroadcastShape(_, _)
BroadcastShape(s, t) ==
    IF s = <<>> THEN <<>>
    ELSE <<BroadcastDim(Head(s), Head(t))>> \o BroadcastShape(Tail(s), Tail(t))

\* a * b and a + b of tensors of the same rank
Elementwise(a_, b_) ==
    The({(
    IF IsErr(a) \/ IsErr(b) \/ Len(a.shape) # Len(b.shape) THEN ErrT
    ELSE LET sh == BroadcastShape(a.shape, b.shape)
         IN  IF \E i \in 1..Len(sh) : sh[i] = 0 /\ a.shape[i] # 0 THEN ErrT
             ELSE [shape |-> sh, grad |-> a.grad \cup b.grad, val |-> JoinVal(a.val, b.val)]
    ) : a \in {a_}, b \in {b_}})

\* The sizes the outputs are resized to: the original heights, as the code
\* reads them (x.shape[2] for both sides).
RestoreSide(t) == t.shape[3]

\* TDRG.cross_scale_attention(x3, x4, x5)
cross_scale_attention(a3_, a4_, a5_) ==
    The({(
    IF IsErr(a3) \/ IsErr(a4) \/ IsErr(a5) THEN <<ErrT, ErrT, ErrT>>
    ELSE
    LET h3 == a3.shape[3]
        h4 == a4.shape[3]
        h5 == a5.shape[3]
        h_max == Max3(h3, h4, h5)
        u3 == Interpolate(a3, h_max)
        u4 == Interpolate(a4, h_max)
        u5 == Interpolate(a5, h_max)
        mul == Elementwise(Elementwise(u3, u4), u5)
        v3 == Elementwise(u3, mul)
        v4 == Elementwise(u4, mul)
        v5 == Elementwise(u5, mul)
    IN  <<Interpolate(v3, RestoreSide(a3)),
          Interpolate(v4, RestoreSide(a4)),
          Interpolate(v5, RestoreSide(a5))>>
    ) : a3 \in {a3_}, a4 \in {a4_}, a5 \in {a5_}})

RECURSIVE RowsOfZero(_)
RowsOfZero(n) == IF n = 0 THEN <<>> ELSE <<Row(0)>> \o RowsOfZero(n - 1)

CsaSides == 1..MaxCsaSide
CsaMap(b, c, h, w) ==
    [shape |-> <<b, c, h, w>>, grad |-> {}, val |-> RowsOfZero(b)]

CsaInit ==
    /\ csa_pc = "ready"
    /\ \E b \in 1..MaxCsaDim, c \in 1..MaxCsaDim :
       \E hs \in [1..3 -> CsaSides], ws \in [1..3 -> CsaSides] :
          csa_in = [i \in 1..3 |-> CsaMap(b, c, hs[i], ws[i])]
    /\ csa_out = <<NoTensor, NoTensor, NoTensor>>

CsaIdle ==
    /\ csa_pc = "idle"
    /\ csa_in = <<NoTensor, NoTensor, NoTensor>>
    /\ csa_out = <<NoTensor, NoTensor, NoTensor>>

\* one call cross_scale_attention(x3, x4, x5)
CsaCall ==
    /\ csa_pc = "ready"
    /\ csa_out' = cross_scale_attention(csa_in[1], csa_in[2], csa_in[3])
    /\ csa_pc' = "done"
    /\ UNCHANGED csa_in

(***************************************************************************)
(* The fusion step of TDRG.forward on numbers: lines 258-259.              *)
(***************************************************************************)

\* torch.ones(n, n), a mask that selects every entry
MaskOnes(n) == [i \in 1..n |-> [j \in 1..n |-> 1]]

\* self.mask_mat = nn.Parameter(torch.eye(num_classes).float())
mask_mat(n) == [i \in 1..n |-> [j \in 1..n |-> IF i = j THEN 1 ELSE 0]]

RECURSIVE SumTo(_, _)
SumTo(f, n) == IF n = 0 THEN 0 ELSE f[n] + SumTo(f, n - 1)

\* (out_gcn * mask_mat).sum(-1): mask broadcast over the batch dimension
MaskedSum(raw, mask) ==
    [b \in 1..Len(raw) |->
        [c \in 1..Len(mask) |->
            SumTo([j \in 1..Len(mask) |-> raw[b][c][j] * mask[c][j]], Len(mask))]]

FusShapes == {bc \in (1..MaxElems) \X (1..MaxElems) : bc[1] * bc[2] * bc[2] <= MaxElems}
Logits == 0..MaxLogit

FusInit ==
    /\ fus_pc = "ready"
    /\ \E bc \in FusShapes :
          raw_logits \in [1..bc[1] -> [1..bc[2] -> [1..bc[2] -> Logits]]]
    /\ fused = <<>>

FusIdle == fus_pc = "idle" /\ raw_logits = <<>> /\ fused = <<>>

\* mask_mat = self.mask_mat.detach(); out_gcn = (out_gcn * mask_mat).sum(-1)
Fuse ==
    /\ fus_pc = "ready"
    /\ fused' = MaskedSum(raw_logits, mask_mat(Len(raw_logits[1])))
    /\ fus_pc' = "done"
    /\ UNCHANGED raw_logits

(***************************************************************************)
(* Shape, gradient and value rules of the torch layers TDRG is built of.   *)
(***************************************************************************)

\* hyper-parameters set in TDRG.__init__
in_planes == 2048
transformer_dim == 512
gcn_dim == 512

\* self.kmp = TopKMaxPooling(kmax=0.05)
KmpKmax == Rat(1, 20)

\* Output size of a convolution or pooling window along one side
\* (0: the window does not fit, torch raises).
ConvOut(size, kernel, stride, padding) ==
    IF size = 0 \/ size + 2 * padding < kernel THEN 0
    ELSE (size + 2 * padding - kernel) \div stride + 1

\* nn.Conv2d(cin, cout, kernel, stride) applied to t, its weights named param
Conv2d(t_, cin, cout, kernel, stride, param) ==
    The({(
    IF IsErr(t) \/ Len(t.shape) # 4 THEN ErrT
    ELSE IF t.shape[2] # cin THEN ErrT
    ELSE LET h == ConvOut(t.shape[3], kernel, stride, 0)
             w == ConvOut(t.shape[4], kernel, stride, 0)
         IN  IF h = 0 \/ w = 0 THEN ErrT
             ELSE [shape |-> <<t.shape[1], cout, h, w>>,
                   grad |-> t.grad \cup {param}, val |-> t.val]
    ) : t \in {t_}})

\* nn.Conv1d(cin, cout, 1) applied to t
Conv1d(t_, cin, cout, param) ==
    The({(
    IF IsErr(t) \/ Len(t.shape) # 3 THEN ErrT
    ELSE IF t.shape[2] # cin THEN ErrT
    ELSE [shape |-> <<t.shape[1], cout, t.shape[3]>>,
          grad |-> t.grad \cup {param}, val |-> t.val]
    ) : t \in {t_}})

\* nn.Linear(fin, fout) applied to a [B, fin] tensor
Linear(t_, fin, fout, param) ==
    The({(
    IF IsErr(t) \/ Len(t.shape) # 2 THEN ErrT
    ELSE IF t.shape[2] # fin THEN ErrT
    ELSE [shape |-> <<t.shape[1], fout>>, grad |-> t.grad \cup {param}, val |-> t.val]
    ) : t \in {t_}})

\* t.view(t.size(0), t.size(1), -1) of a rank-4 tensor
Flatten(t_) ==
    The({(
    IF IsErr(t) \/ Len(t.shape) # 4 THEN ErrT
    ELSE [t EXCEPT !.shape = <<t.shape[1], t.shape[2], t.shape[3] * t.shape[4]>>]
    ) : t \in {t_}})

\* A tensor passed on without detach()
NoDetach(t) == t

\* Tensor.detach(): the value, cut from the gradient graph
Detach(t_) ==
    The({(
    IF IsErr(t) THEN ErrT ELSE [t EXCEPT !.grad = {}]
    ) : t \in {t_}})

\* self.GMP(t).view(t.shape[0], -1): AdaptiveMaxPool2d(1), then [B, C]
GMP(t_) ==
    The({(
    IF IsErr(t) \/ Len(t.shape) # 4 THEN ErrT
    ELSE IF t.shape[3] = 0 \/ t.shape[4] = 0 THEN ErrT
    ELSE [t EXCEPT !.shape = <<t.shape[1], t.shape[2]>>]
    ) : t \in {t_}})

\* self.GAP1d(t): AdaptiveAvgPool1d(1) on [B, C, N]
GAP1d(t_) ==
    The({(
    IF IsErr(t) \/ Len(t.shape) # 3 THEN ErrT
    ELSE IF t.shape[3] = 0 THEN ErrT
    ELSE [t EXCEPT !.shape = <<t.shape[1], t.shape[2], 1>>]
    ) : t \in {t_}})

\* torch.cat((a, b), dim=1): every other size must agree
Cat1(a_, b_) ==
    The({(
    IF IsErr(a) \/ IsErr(b) \/ Len(a.shape) # Len(b.shape) THEN ErrT
    ELSE IF \E i \in 1..Len(a.shape) : i # 2 /\ a.shape[i] # b.shape[i] THEN ErrT
    ELSE [shape |-> <<a.shape[1], a.shape[2] + b.shape[2]>> \o SubSeq(a.shape, 3, Len(a.shape)),
          grad |-> a.grad \cup b.grad, val |-> JoinVal(a.val, b.val)]
    ) : a \in {a_}, b \in {b_}})

\* torch.matmul(a, b) of rank-3 tensors: [B, n, m] x [B, m, p]
Matmul(a_, b_) ==
    The({(
    IF IsErr(a) \/ IsErr(b) \/ Len(a.shape) # 3 \/ Len(b.shape) # 3 THEN ErrT
    ELSE IF a.shape[3] # b.shape[2] \/ BroadcastDim(a.shape[1], b.shape[1]) = 0 THEN ErrT
    ELSE [shape |-> <<BroadcastDim(a.shape[1], b.shape[1]), a.shape[2], b.shape[3]>>,
          grad |-> a.grad \cup b.grad, val |-> JoinVal(a.val, b.val)]
    ) : a \in {a_}, b \in {b_}})

\* t.transpose(1, 2)
Transpose12(t_) ==
    The({(
    IF IsErr(t) \/ Len(t.shape) # 3 THEN ErrT
    ELSE [t EXCEPT !.shape = <<t.shape[1], t.shape[3], t.shape[2]>>]
    ) : t \in {t_}})

\* t.expand(t.size(0), t.size(1), n) of a [B, C, 1] tensor
Expand(t_, n) ==
    The({(
    IF IsErr(t) \/ Len(t.shape) # 3 THEN ErrT
    ELSE IF t.shape[3] # 1 /\ t.shape[3] # n THEN ErrT
    ELSE [t EXCEPT !.shape = <<t.shape[1], t.shape[2], n>>]
    ) : t \in {t_}})

\* t.sum(-1)
SumLast(t_) ==
    The({(
    IF IsErr(t) \/ Len(t.shape) = 0 THEN ErrT
    ELSE [t EXCEPT !.shape = SubSeq(t.shape, 1, Len(t.shape) - 1)]
    ) : t \in {t_}})

\* The halving of one side by a stride-2 stage of the backbone
\* (kernel 7 padding 3, or kernel 3 padding 1: the same size rule).
Half(size) == ConvOut(size, 3, 2, 1)

\* One backbone stage: a ResNet stage taking cin channels to cout, halving
\* the sides `halvings` times.
BackboneStage(t_, cin, cout, halvings) ==
    The({(
    IF IsErr(t) \/ Len(t.shape) # 4 THEN ErrT
    ELSE IF t.shape[2] # cin THEN ErrT
    ELSE LET h == IF halvings = 2 THEN Half(Half(t.shape[3])) ELSE Half(t.shape[3])
             w == IF halvings = 2 THEN Half(Half(t.shape[4])) ELSE Half(t.shape[4])
         IN  IF h = 0 \/ w = 0 THEN ErrT
             ELSE [shape |-> <<t.shape[1], cout, h, w>>,
                   grad |-> t.grad \cup {"backbone"}, val |-> t.val]
    ) : t \in {t_}})

\* TDRG.forward_backbone(x): <<x2, x3, x4>>
forward_backbone(t_) ==
    The({(
    LET x1 == BackboneStage(t, 3, in_planes \div 8, 2)
        x2 == BackboneStage(x1, in_planes \div 8, in_planes \div 4, 1)
        y3 == BackboneStage(x2, in_planes \div 4, in_planes \div 2, 1)
        y4 == BackboneStage(y3, in_planes \div 2, in_planes, 1)
    IN  <<x2, y3, y4>>
    ) : t \in {t_}})

\* self.transformer(x, mask, query_embed.weight, pos) with pos =
\* self.positional_embedding(x): the encoder memory, shaped like x.
Transformer(t_) ==
    The({(
    IF IsErr(t) \/ Len(t.shape) # 4 THEN ErrT
    ELSE IF t.shape[2] # transformer_dim THEN ErrT
    ELSE [t EXCEPT !.grad = t.grad \cup {"transformer", "positional_embedding"}]
    ) : t \in {t_}})

TransformParams == {"transform_7", "transform_14", "transform_28"}

\* TDRG.forward_transformer(x3, x4): [f3, f4, f5, feat]
forward_transformer(a3_, a4_) ==
    The({(
    LET p5 == Conv2d(a4, in_planes, transformer_dim, 3, 2, "transform_7")
        p4 == Conv2d(a4, in_planes, transformer_dim, 1, 1, "transform_14")
        p3 == Conv2d(a3, in_planes \div 2, transformer_dim, 1, 1, "transform_28")
        c == cross_scale_attention(p3, p4, p5)
        feat3 == Transformer(c[1])
        feat4 == Transformer(c[2])
        feat5 == Transformer(c[3])
        feat == Cat1(Cat1(GMP(feat3), GMP(feat4)), GMP(feat5))
    IN  [f3 |-> Detach(Flatten(feat3)),
         f4 |-> Detach(Flatten(feat4)),
         f5 |-> Detach(Flatten(feat5)),
         feat |-> Linear(feat, transformer_dim * 3, num_classes, "trans_classifier")]
    ) : a3 \in {a3_}, a4 \in {a4_}})

RECURSIVE PooledRows(_, _)
PooledRows(rows, count) ==
    IF rows = <<>> THEN <<>>
    ELSE <<[pix |-> Head(rows).pix, bn |-> Head(rows).bn, nan |-> Head(rows).nan \/ count = 0]>>
         \o PooledRows(Tail(rows), count)

\* self.kmp(activations): TopKMaxPooling.forward on a [B, C, H, W] tensor.
\* A count of 0 makes every entry NaN.
Kmp(t_) ==
    The({(
    IF IsErr(t) \/ Len(t.shape) # 4 THEN ErrT
    ELSE LET count == get_positive_k(KmpKmax, t.shape[3] * t.shape[4])
         IN  [shape |-> <<t.shape[1], t.shape[2]>>, grad |-> t.grad,
              val |-> PooledRows(t.val, count)]
    ) : t \in {t_}})

\* TDRG.forward_constraint(x)
forward_constraint(a4_) ==
    The({(
    Kmp(Conv2d(a4, in_planes, num_classes, 1, 1, "constraint_classifier"))
    ) : a4 \in {a4_}})

\* TDRG.build_nodes(x, f4)
build_nodes(a4_, g4_) ==
    The({(
    LET mask == Transpose12(Flatten(
                    Conv2d(a4, in_planes, num_classes, 1, 1, "constraint_classifier")))
        xg == Flatten(Conv2d(a4, in_planes, gcn_dim, 1, 1, "gcn_dim_transform"))
        v_g == Matmul(xg, mask)
        v_t == Conv1d(Detach(Matmul(g4, mask)), transformer_dim, transformer_dim,
                      "guidance_transform")
    IN  Cat1(v_g, v_t)
    ) : a4 \in {a4_}, g4 \in {g4_}})

(***************************************************************************)
(* self.guidance_bn = nn.BatchNorm1d(...): one channel of it, on the       *)
(* per-sample number the row carries.  eps, weight and bias are fixed, so  *)
(* a normalised value (x - mean) / sqrt(var + eps) is given by the pair    *)
(* <<x - mean, var>>, and by <<0, 0>> when x = mean.                       *)
(***************************************************************************)

\* A batch norm that normalises with batch statistics in every mode
AlwaysBatchStats == TRUE

\* A batch norm that normalises with its running statistics in every mode
NeverBatchStats == FALSE

\* F.batch_norm normalises with the statistics of the batch when training
UseBatchStats == training

\* _BatchNorm.forward updates the running statistics when training
TracksRunningStats == training

Momentum == Rat(1, 10)

RECURSIVE PixelsOf(_)
PixelsOf(rows) ==
    IF rows = <<>> THEN <<>> ELSE <<Head(rows).pix>> \o PixelsOf(Tail(rows))

Pixels(t) == PixelsOf(t.val)

RECURSIVE SumSquares(_)
SumSquares(xs) ==
    IF xs = <<>> THEN 0 ELSE Head(xs) * Head(xs) + SumSquares(Tail(xs))
BatchMean(xs) == Rat(SumSeq(xs), Len(xs))
BatchVar(xs) ==
    Rat(Len(xs) * SumSquares(xs) - SumSeq(xs) * SumSeq(xs), Len(xs) * Len(xs))
UnbiasedVar(xs) ==
    Rat(Len(xs) * SumSquares(xs) - SumSeq(xs) * SumSeq(xs), Len(xs) * (Len(xs) - 1))

Normalised(xv, mean, var) ==
    LET d == RSub(RInt(xv), mean)
    IN  IF d[1] = 0 THEN <<RInt(0), RInt(0)>> ELSE <<d, var>>

RECURSIVE NormalisedRows(_, _, _)
NormalisedRows(rows, mean, var) ==
    IF rows = <<>> THEN <<>>
    ELSE <<[pix |-> Head(rows).pix, bn |-> Normalised(Head(rows).pix, mean, var),
            nan |-> Head(rows).nan]>>
         \o NormalisedRows(Tail(rows), mean, var)

\* self.guidance_bn(t) for t of shape [B, 3 * transformer_dim, L]
BatchNorm1d(t_) ==
    The({(
    IF IsErr(t) \/ Len(t.shape) # 3 THEN ErrT
    ELSE IF t.shape[2] # transformer_dim * 3 THEN ErrT
    ELSE IF UseBatchStats /\ t.shape[1] * t.shape[3] <= 1 THEN ErrT
    ELSE LET xs == Pixels(t)
             mean == IF UseBatchStats THEN BatchMean(xs) ELSE running_mean
             var == IF UseBatchStats THEN BatchVar(xs) ELSE running_var
         IN  [shape |-> t.shape, grad |-> t.grad \cup {"guidance_bn"},
              val |-> NormalisedRows(t.val, mean, var)]
    ) : t \in {t_}})

\* The running statistics after guidance_bn saw t (unchanged when it raised).
MovedTo(old, new) == RAdd(RMul(RSub(RInt(1), Momentum), old), RMul(Momentum, new))

StatsAfter(t_) ==
    The({(
    IF TracksRunningStats /\ ~IsErr(t) /\ ~IsErr(BatchNorm1d(t))
    THEN [mean |-> MovedTo(running_mean, BatchMean(Pixels(t))),
          var |-> MovedTo(running_var, UnbiasedVar(Pixels(t)))]
    ELSE [mean |-> running_mean, var |-> running_var]
    ) : t \in {t_}})

\* num_batches_tracked is incremented before the batch is looked at
TrackedAfter(t_) ==
    The({(
    IF TracksRunningStats /\ ~IsErr(t) THEN num_batches_tracked + 1
    ELSE num_batches_tracked
    ) : t \in {t_}})

\* The input of guidance_bn in build_joint_correlation_matrix
GuidanceConv(g3_, g4_, g5_) ==
    The({(
    Conv1d(Cat1(Cat1(GAP1d(g3), GAP1d(g4)), GAP1d(g5)),
           transformer_dim * 3, transformer_dim * 3, "guidance_conv")
    ) : g3 \in {g3_}, g4 \in {g4_}, g5 \in {g5_}})

\* TDRG.build_joint_correlation_matrix(f3, f4, f5, x)
build_joint_correlation_matrix(g3_, g4_, g5_, nodes_) ==
    The({(
    IF IsErr(nodes) THEN ErrT
    ELSE
    LET trans_guid == BatchNorm1d(GuidanceConv(g3, g4, g5))
        joint == Cat1(Expand(trans_guid, nodes.shape[3]), nodes)
    IN  Conv1d(joint, gcn_dim + transformer_dim * 4, num_classes, "matrix_transform")
    ) : g3 \in {g3_}, g4 \in {g4_}, g5 \in {g5_}, nodes \in {nodes_}})

\* GraphConvolution.forward(adj, nodes)
GraphConvolution(adj_, nodes_) ==
    The({(
    Conv1d(Matmul(nodes, adj), transformer_dim + gcn_dim, transformer_dim + gcn_dim,
           "forward_gcn")
    ) : adj \in {adj_}, nodes \in {nodes_}})

\* self.mask_mat.detach(), as a tensor broadcast over the batch
MaskTensor == [shape |-> <<1, num_classes, num_classes>>, grad |-> {}, val |-> <<>>]

\* steps 6 and 7 of TDRG.forward
GcnOutput(adj_, nodes_) ==
    The({(
    LET G == Elementwise(GraphConvolution(adj, nodes), nodes)
        logits == Conv1d(G, transformer_dim + gcn_dim, num_classes, "gcn_classifier")
    IN  SumLast(Elementwise(logits, MaskTensor))
    ) : adj \in {adj_}, nodes \in {nodes_}})

(***************************************************************************)
(* The TDRG module and its forward pass.                                   *)
(***************************************************************************)

NoEntry == [training |-> FALSE, mean |-> NoRat, var |-> NoRat]
NoRef == [x |-> NoTensor, entry |-> NoEntry, pc |-> "none",
          out_trans |-> NoTensor, out_gcn |-> NoTensor, out_sac |-> NoTensor]

RECURSIVE Rows(_)
Rows(pixs) == IF pixs = <<>> THEN <<>> ELSE <<Row(Head(pixs))>> \o Rows(Tail(pixs))

RECURSIVE Repeat(_, _)
Repeat(v, n) == IF n = 0 THEN <<>> ELSE <<v>> \o Repeat(v, n - 1)

InputTensor(b, h, w, pixs) ==
    [shape |-> <<b, 3, h, w>>, grad |-> {}, val |-> Rows(pixs)]

ImageSides == {32 * k : k \in 1..MaxSide}

\* Batches of every size and shape, of one image value.
ShapeInputs ==
    {InputTensor(b, h, w, Repeat(0, b)) : b \in 1..MaxB, h \in ImageSides, w \in ImageSides}

\* Batches of every content, of the largest square size.
ValueInputs ==
    UNION {{InputTensor(b, 32 * MaxSide, 32 * MaxSide, pixs) : pixs \in [1..b -> 0..MaxPix]}
           : b \in 1..MaxB}

\* TDRG(model, num_classes): a fresh nn.Module is in training mode, and a
\* fresh BatchNorm1d has running_mean 0, running_var 1, num_batches_tracked 0.
Construct(ncls) ==
    /\ num_classes = ncls
    /\ training = TRUE
    /\ running_mean = RInt(0) /\ running_var = RInt(1) /\ num_batches_tracked = 0
    /\ pc = "idle" /\ x = NoTensor /\ entry = NoEntry
    /\ x3 = NoTensor /\ x4 = NoTensor
    /\ f3 = NoTensor /\ f4 = NoTensor /\ f5 = NoTensor
    /\ out_trans = NoTensor /\ out_sac = NoTensor
    /\ V = NoTensor /\ A_s = NoTensor /\ out_gcn = NoTensor
    /\ ref = NoRef

TdrgIdle ==
    /\ num_classes = 0 /\ training = FALSE
    /\ running_mean = NoRat /\ running_var = NoRat /\ num_batches_tracked = 0
    /\ pc = "unused" /\ x = NoTensor /\ entry = NoEntry
    /\ x3 = NoTensor /\ x4 = NoTensor
    /\ f3 = NoTensor /\ f4 = NoTensor /\ f5 = NoTensor
    /\ out_trans = NoTensor /\ out_sac = NoTensor
    /\ V = NoTensor /\ A_s = NoTensor /\ out_gcn = NoTensor
    /\ ref = NoRef

\* nn.Module.train()
Train ==
    /\ pc = "idle"
    /\ training' = TRUE
    /\ UNCHANGED <<num_classes, running_mean, running_var, num_batches_tracked, callVars, ref>>

\* nn.Module.eval()
Eval ==
    /\ pc = "idle"
    /\ training' = FALSE
    /\ UNCHANGED <<num_classes, running_mean, running_var, num_batches_tracked, callVars, ref>>

\* What a local holds after the call: its value when the call got past the
\* stage that sets it, the error at the stage that raised, nothing after it.
Local(stage, failed_at, value) ==
    IF failed_at = 0 \/ stage < failed_at THEN value
    ELSE IF stage = failed_at THEN ErrT ELSE NoTensor

\* TDRG.forward(x), from the call to the return or the exception
Forward(input) ==
    /\ pc = "idle"
    /\ training => num_batches_tracked < MaxTrain
    /\ \E bb \in {forward_backbone(input)} :
       \E tr \in {forward_transformer(bb[2], bb[3])} :
       \E sac \in {forward_constraint(bb[3])} :
       \E nodes \in {build_nodes(bb[3], tr.f4)} :
       \E adj \in {build_joint_correlation_matrix(tr.f3, tr.f4, tr.f5, nodes)} :
       \E gcn \in {GcnOutput(adj, nodes)} :
       \E failed_at \in {IF IsErr(bb[3]) THEN 1
                          ELSE IF IsErr(tr.feat) THEN 2
                          ELSE IF IsErr(sac) THEN 3
                          ELSE IF IsErr(nodes) THEN 4
                          ELSE IF IsErr(adj) THEN 5
                          ELSE IF IsErr(gcn) THEN 6
                          ELSE 0} :
       \E bn_in \in {IF failed_at = 0 \/ failed_at >= 5
                      THEN GuidanceConv(tr.f3, tr.f4, tr.f5) ELSE ErrT} :
       \E stats \in {StatsAfter(bn_in)} :
           /\ x' = input
           /\ entry' = [training |-> training, mean |-> running_mean, var |-> running_var]
           /\ x3' = Local(1, failed_at, bb[2])
           /\ x4' = Local(1, failed_at, bb[3])
           /\ f3' = Local(2, failed_at, tr.f3)
           /\ f4' = Local(2, failed_at, tr.f4)
           /\ f5' = Local(2, failed_at, tr.f5)
           /\ V' = Local(4, failed_at, nodes)
           /\ A_s' = Local(5, failed_at, adj)
           /\ out_trans' = IF failed_at = 0 THEN tr.feat ELSE NoTensor
           /\ out_gcn' = IF failed_at = 0 THEN gcn ELSE NoTensor
           /\ out_sac' = IF failed_at = 0 THEN sac ELSE NoTensor
           /\ running_mean' = stats.mean
           /\ running_var' = stats.var
           /\ num_batches_tracked' = TrackedAfter(bn_in)
           /\ pc' = IF failed_at = 0 THEN "done" ELSE "error"
    /\ UNCHANGED <<num_classes, training, ref>>

\* The caller is done with the results (or the exception) of the call.
Return ==
    /\ pc \in {"done", "error"}
    /\ pc' = "idle"
    /\ x' = NoTensor /\ entry' = NoEntry
    /\ x3' = NoTensor /\ x4' = NoTensor
    /\ f3' = NoTensor /\ f4' = NoTensor /\ f5' = NoTensor
    /\ out_trans' = NoTensor /\ out_sac' = NoTensor
    /\ V' = NoTensor /\ A_s' = NoTensor /\ out_gcn' = NoTensor
    /\ UNCHANGED <<moduleVars, ref>>

\* Keep the call that just ended, to compare a later call with it.
Remember ==
    /\ pc \in {"done", "error"}
    /\ ref = NoRef
    /\ ref' = [x |-> x, entry |-> entry, pc |-> pc,
               out_trans |-> out_trans, out_gcn |-> out_gcn, out_sac |-> out_sac]
    /\ UNCHANGED <<moduleVars, callVars>>

(***************************************************************************)
(* Specifications.                                                         *)
(***************************************************************************)

\* TDRG on batches of every size and shape.
Init == PoolIdle /\ CsaIdle /\ FusIdle /\ \E ncls \in 1..MaxClasses : Construct(ncls)

ForwardShapes == \E input \in ShapeInputs : Forward(input)

Next ==
    \/ (Train /\ UNCHANGED <<poolVars, csaVars, fusVars>>)
    \/ (Eval /\ UNCHANGED <<poolVars, csaVars, fusVars>>)
    \/ (ForwardShapes /\ UNCHANGED <<poolVars, csaVars, fusVars>>)
    \/ (Return /\ UNCHANGED <<poolVars, csaVars, fusVars>>)

Spec == Init /\ [][Next]_vars

\* TDRG on batches of every content, two calls compared.
RunsInit == PoolIdle /\ CsaIdle /\ FusIdle /\ Construct(MaxClasses)

ForwardValues == \E input \in ValueInputs : Forward(input)

RunsNext ==
    \/ (Train /\ UNCHANGED <<poolVars, csaVars, fusVars>>)
    \/ (Eval /\ UNCHANGED <<poolVars, csaVars, fusVars>>)
    \/ (ForwardValues /\ UNCHANGED <<poolVars, csaVars, fusVars>>)
    \/ (Return /\ UNCHANGED <<poolVars, csaVars, fusVars>>)
    \/ (Remember /\ UNCHANGED <<poolVars, csaVars, fusVars>>)

SpecRuns == RunsInit /\ [][RunsNext]_vars

\* TopKMaxPooling alone.
PoolOnlyInit == PoolInit /\ CsaIdle /\ FusIdle /\ TdrgIdle

PoolOnlyNext ==
    PoolNext /\ UNCHANGED <<csaVars, fusVars, moduleVars, callVars, ref>>

SpecPool == PoolOnlyInit /\ [][PoolOnlyNext]_vars

\* cross_scale_attention alone.
CsaOnlyInit == CsaInit /\ PoolIdle /\ FusIdle /\ TdrgIdle

CsaOnlyNext ==
    CsaCall /\ UNCHANGED <<poolVars, fusVars, moduleVars, callVars, ref>>

SpecCSA == CsaOnlyInit /\ [][CsaOnlyNext]_vars

\* The fusion step alone.
FusOnlyInit == FusInit /\ PoolIdle /\ CsaIdle /\ TdrgIdle

FusOnlyNext ==
    Fuse /\ UNCHANGED <<poolVars, csaVars, moduleVars, callVars, ref>>

SpecFusion == FusOnlyInit /\ [][FusOnlyNext]_vars

(***************************************************************************)
(* Properties.                                                             *)
(***************************************************************************)

\* ---- TopKMaxPooling (SpecPool) ----

PoolRegions == pool_input.h * pool_input.w
PoolCount == get_positive_k(kmax, PoolRegions)
PoolAverage == Rat(SumSeq(pool_input.vals), PoolRegions)
PoolIsMax ==
    \E i \in 1..PoolRegions :
        /\ pool_output = RInt(pool_input.vals[i])
        /\ \A j \in 1..PoolRegions : pool_input.vals[j] <= pool_input.vals[i]

RECURSIVE SumOver(_, _)
SumOver(f, S) ==
    IF S = {} THEN 0
    ELSE LET i == CHOOSE j \in S : TRUE IN f[i] + SumOver(f, S \ {i})

\* The output is the average of `count` values none of which is smaller than
\* a value left out.
PoolIsTopAverage(count) ==
    \E S \in SUBSET (1..PoolRegions) :
        /\ Cardinality(S) = count
        /\ \A i \in S, j \in (1..PoolRegions) \ S : pool_input.vals[i] >= pool_input.vals[j]
        /\ pool_output = Rat(SumOver(pool_input.vals, S), count)

\* C2, as stated: with k = 1.0 or k = H*W the output is the average of all
\* H*W values of the channel, and with a count of one it is the maximum.
C2_AverageAtOneOrAll ==
    pool_pc = "done" =>
        /\ (kmax = RInt(1) \/ kmax = RInt(PoolRegions)) => pool_output = PoolAverage
        /\ PoolCount = 1 => PoolIsMax

\* C2, amended: with k = H*W the output is the average of all H*W values of
\* the channel; with a count of one, which k = 1.0 gives, it is the maximum.
C2_AverageAtAllMaxAtOne ==
    pool_pc = "done" =>
        /\ kmax = RInt(PoolRegions) => pool_output = PoolAverage
        /\ PoolCount = 1 => PoolIsMax
        /\ kmax = RInt(1) => PoolIsMax

\* k = 1.0 on a channel of several regions whose maximum is not their average
C2_Witness ==
    /\ pool_pc = "done"
    /\ kmax = RInt(1)
    /\ PoolRegions >= 2
    /\ pool_output # PoolAverage

\* C3: a pooling operator is never constructed with k <= 0, so forward never
\* divides by a count of zero because of it.
C3_NonPositiveKRejected ==
    /\ pool_pc \in {"constructed", "done"} => RLess(RInt(0), kmax)
    /\ (pool_pc = "done" /\ RLeq(kmax, RInt(0))) => pool_output # NaN

\* C9: the effective count follows the four-case rule (0 for k <= 0; k*n
\* rounded to the nearest integer, a tie to the even one, for 0 < k < 1; n for
\* k > n; otherwise the integer part of k), and forward returns the average
\* of that many largest values of the channel.
C9_FourCaseRule ==
    pool_pc = "done" =>
        LET n == PoolRegions
            c == PoolCount
            num == kmax[1]
            den == kmax[2]
        IN  /\ RLeq(kmax, RInt(0)) => c = 0
            /\ (RLess(RInt(0), kmax) /\ RLess(kmax, RInt(1))) =>
                  /\ 2 * Abs(c * den - num * n) <= den
                  /\ 2 * Abs(c * den - num * n) = den => c % 2 = 0
            /\ RLess(RInt(n), kmax) => c = n
            /\ (RLeq(RInt(1), kmax) /\ RLeq(kmax, RInt(n))) =>
                  /\ RLeq(RInt(c), kmax)
                  /\ RLess(kmax, RInt(c + 1))
            /\ c >= 1 => PoolIsTopAverage(c)

\* a fraction k that rounds to a count strictly between 0 and n
C9_Witness ==
    /\ pool_pc = "done"
    /\ RLess(RInt(0), kmax) /\ RLess(kmax, RInt(1))
    /\ PoolCount >= 1 /\ PoolCount < PoolRegions
    /\ pool_output # PoolAverage

\* ---- cross_scale_attention (SpecCSA) ----

\* C4: each output of cross_scale_attention has the shape of its input.
C4_ShapesRestored ==
    csa_pc = "done" =>
        \A i \in 1..3 : csa_out[i].shape = csa_in[i].shape

\* ---- fusion step (SpecFusion) ----

\* C8: out_gcn[b, c] is raw_logits[b, c, c]; no off-diagonal logit contributes.
C8_DiagonalSelected ==
    fus_pc = "done" =>
        \A b \in 1..Len(raw_logits) : \A c \in 1..Len(raw_logits[b]) :
            fused[b][c] = raw_logits[b][c][c]

\* a batch of logits with a non-zero off-diagonal entry
C8_Witness ==
    /\ fus_pc = "done"
    /\ \E b \in 1..Len(raw_logits) : \E c, j \in 1..Len(raw_logits[b]) :
          c # j /\ raw_logits[b][c][j] # 0

\* ---- TDRG.forward on every shape (Spec) ----

Ended == pc \in {"done", "error"}

\* No stride or downsampling step takes the input to size zero: the five
\* halvings of the backbone and the stride-2 3x3 projection.
Stage4Side(size) == Half(Half(Half(Half(Half(size)))))
SurvivesDownsampling(t) ==
    /\ ConvOut(Stage4Side(t.shape[3]), 3, 2, 0) > 0
    /\ ConvOut(Stage4Side(t.shape[4]), 3, 2, 0) > 0

\* C1: on every input that survives the downsampling, whatever H and W,
\* forward completes and returns three tensors of shape [B, num_classes].
C1_ThreeLogitTensors ==
    (Ended /\ SurvivesDownsampling(x)) =>
        /\ pc = "done"
        /\ out_trans.shape = <<x.shape[1], num_classes>>
        /\ out_gcn.shape = <<x.shape[1], num_classes>>
        /\ out_sac.shape = <<x.shape[1], num_classes>>

\* C5: no detach-free path leads from transform_7, transform_14 or
\* transform_28 to the GCN-branch output, and one leads from each of them to
\* the transformer-branch output.
C5_GradientIsolation ==
    pc = "done" =>
        /\ out_gcn.grad \cap TransformParams = {}
        /\ TransformParams \subseteq out_trans.grad

\* a completed call whose GCN branch read the structural guidance
C5_Witness ==
    /\ pc = "done"
    /\ {"guidance_transform", "guidance_conv"} \subseteq out_gcn.grad
    /\ TransformParams \subseteq f4.grad \cup out_trans.grad

\* C10: in the constraint branch the effective count of the Top-K pooling is
\* at least 1 on every input that survives the downsampling, so no entry of
\* out_sac is a division by zero.
C10_ConstraintCountPositive ==
    (Ended /\ SurvivesDownsampling(x)) =>
        /\ get_positive_k(KmpKmax, x4.shape[3] * x4.shape[4]) >= 1
        /\ pc = "done" => \A i \in 1..Len(out_sac.val) : ~out_sac.val[i].nan

\* ---- two calls of TDRG.forward (SpecRuns) ----

BothDone == pc = "done" /\ ref.pc = "done"
SameMode == entry.training = ref.entry.training
SameStats == entry.mean = ref.entry.mean /\ entry.var = ref.entry.var
BothEval == ~entry.training /\ ~ref.entry.training

\* Row i of this call and row j of the remembered call have the same input.
SameElement(i, j) == x.val[i] = ref.x.val[j]
SameGcnRow(i, j) == out_gcn.val[i] = ref.out_gcn.val[j]
SameOtherRows(i, j) ==
    /\ out_trans.val[i] = ref.out_trans.val[j]
    /\ out_sac.val[i] = ref.out_sac.val[j]

\* C6, as stated: in every mode, an output row depends only on the input
\* element of that row (and the parameters and buffers of the module).
C6_RowsIndependent ==
    (BothDone /\ SameMode /\ (BothEval => SameStats)) =>
        \A i \in 1..Len(x.val), j \in 1..Len(ref.x.val) :
            SameElement(i, j) => (SameGcnRow(i, j) /\ SameOtherRows(i, j))

\* C6, amended: in eval mode an output row depends only on the input element
\* of that row (and the parameters and running statistics); the transformer
\* and constraint rows do so in every mode.
C6_EvalRowsIndependent ==
    BothDone =>
        \A i \in 1..Len(x.val), j \in 1..Len(ref.x.val) :
            SameElement(i, j) =>
                /\ SameOtherRows(i, j)
                /\ (BothEval /\ SameStats) => SameGcnRow(i, j)

\* two eval-mode calls on different batches of two that share an element
C6_Witness ==
    /\ BothDone /\ BothEval /\ SameStats
    /\ Len(x.val) >= 2 /\ Len(ref.x.val) >= 2
    /\ x # ref.x
    /\ \E i \in 1..Len(x.val), j \in 1..Len(ref.x.val) : SameElement(i, j)

SameOutcome ==
    /\ pc = ref.pc
    /\ out_trans = ref.out_trans
    /\ out_gcn = ref.out_gcn
    /\ out_sac = ref.out_sac

====
